---- MODULE Spec2Model ----
(***************************************************************************)
(* Model of pgxscan (structscan.go): the three scan modes ScanStruct,      *)
(* ScanStructs and ScanFlat driving a pgx.Rows cursor into a destination   *)
(* passed as interface{}, and the wrappers Get, Select and SelectFlat that  *)
(* run a query and hand its cursor to them.                                *)
(*                                                                         *)
(* One call is modelled at a time.  Every statement that touches the       *)
(* cursor, the mapper or the destination is logged in `calls`, so that the *)
(* order of the cursor operations is part of the state.                    *)
(***************************************************************************)
EXTENDS Integers, Sequences, FiniteSets, TLC

\* Bounds of the model: rows a cursor yields, columns a cursor reports.
MaxRows == 3
MaxCols == 2

VARIABLES
    pc,          \* position of the running call
    fn,          \* the function being run
    dest,        \* the dest interface{} argument: its reflect shape
    dst,         \* contents of the caller's variable dest points to
    dst0,        \* dst as it was when the call started
    heap,        \* records allocated with reflect.New (and those dst's pointers hold)
    r,           \* the pgx.Rows cursor
    calls,       \* log of cursor / mapper operations, in program order
    ret,         \* the call's result
    columns,     \* ScanStructs' cached columns (var columns []string)
    resultSlice, \* the local accumulator (resultSlice / valSlice)
    destVal,     \* ScanStructs' current row instance (address in heap)
    values,      \* the targets handed to the last r.Scan(values...)
    via          \* how the call was made: directly, or by a wrapper and its query

vars == <<pc, fn, dest, dst, dst0, heap, r, calls, ret, columns, resultSlice, destVal,
          values, via>>

----------------------------------------------------------------------------
(* Destination record types and the names DefaultMapper resolves for them. *)

\* Column names a result set may report; "extra" matches no field of either type.
ColNames == {"id", "some_data", "extra"}
\* testNullable is a record whose some_data field is of pointer kind.
TypeNames == {"testEntity", "testMissingField", "testNullable"}

\* The field list of a record type, by the name the mapper indexes it under.
Fields(T) ==
    CASE T = "testEntity"   -> <<"id", "created_at", "some_data">>
      [] T = "testNullable" -> <<"id", "some_data">>
      [] OTHER              -> <<"id", "created_at">>

FieldSet(T) == {Fields(T)[i] : i \in 1..Len(Fields(T))}

\* The fields of pointer kind (f.Kind() == reflect.Ptr).
PtrFields(T) == IF T = "testNullable" THEN {"some_data"} ELSE {}

\* A cell of the result set: the value of column c in the i-th row.
Cell(i, c) == <<i, c>>
ZeroValue == <<0, "zero">>
OldValue == <<0, "old">>
\* What a field of pointer kind holds when it points to nothing; otherwise the
\* record shows the value the field points to.
NilValue == <<0, "nil">>

ZeroRecord(T) == [f \in FieldSet(T) |-> IF f \in PtrFields(T) THEN NilValue ELSE ZeroValue]
OldRecord(T) == [f \in FieldSet(T) |-> OldValue]

\* Slice elements: a record (struct), a boxed address (pointer) or a boxed scalar.
PtrTo(a) == [addr |-> a]
Scalar(v) == [v |-> v]

----------------------------------------------------------------------------
(* The shapes a dest interface{} can have, as reflect sees them.           *)

Dest(k, nil, p, e, t) == [kind |-> k, isNil |-> nil, pointee |-> p, elem |-> e, typ |-> t]

Dests ==
    {Dest("invalid", FALSE, "-", "-", "-")}          \* untyped nil
    \cup {Dest("value", FALSE, "-", "-", "-")}       \* a struct or slice passed by value
    \cup {Dest("ptr", n, "struct", "-", t) : n \in BOOLEAN, t \in TypeNames}
    \cup {Dest("ptr", n, "scalar", "-", "-") : n \in BOOLEAN}
    \cup {Dest("ptr", n, "slice", e, t) : n \in BOOLEAN, e \in {"struct", "ptr"}, t \in TypeNames}
    \cup {Dest("ptr", n, "slice", "scalar", "-") : n \in BOOLEAN}

\* Whether the caller's variable has contents the call could overwrite.
HasContents(d) == d.kind = "ptr" /\ ~d.isNil /\ d.pointee \in {"struct", "slice"}

\* The element a destination slice already holds when it is not empty.
OldElem(d) ==
    CASE d.elem = "struct" -> OldRecord(d.typ)
      [] d.elem = "ptr"    -> PtrTo(1)
      [] OTHER             -> Scalar(OldValue)

InitialContents(d, stale) ==
    IF ~HasContents(d) THEN <<>>
    ELSE IF d.pointee = "struct"
         THEN (IF stale THEN OldRecord(d.typ) ELSE ZeroRecord(d.typ))
         ELSE (IF stale THEN <<OldElem(d)>> ELSE <<>>)

InitialHeap(d, stale) ==
    IF HasContents(d) /\ d.pointee = "slice" /\ d.elem = "ptr" /\ stale
    THEN <<OldRecord(d.typ)>> ELSE <<>>

----------------------------------------------------------------------------
(* Results.                                                                *)

Result(k, c, t, cause) == [k |-> k, col |-> c, typ |-> t, cause |-> cause]
Running == Result("running", "", "", "")
Nil == Result("nil", "", "", "")
Panic == Result("panic", "", "", "")
ErrNoRows == Result("pgx.ErrNoRows", "", "", "")
ErrDecode == Result("decode error", "", "", "")
ErrIter == Result("iteration error", "", "", "")
ErrQuery == Result("query error", "", "", "")
ErrNotPointer == Result("dest must be a pointer to a struct, not a value", "", "", "")
ErrNilPointer == Result("dest is nil pointer", "", "", "")
ErrFlatShape == Result("invalid input, expected a pointer to a slice", "", "", "")
ErrStructsShape == Result("expected a pointer to a slice", "", "", "")
ErrNotStruct == Result("argument is not a struct", "", "", "")
ErrMissing(c, t) == Result("missing column", c, t, "")
Wrap(e, msg) == Result(msg, "", "", e.k)

IsError(x) == x.k \notin {"running", "nil", "panic"}

----------------------------------------------------------------------------
(* The cursor (pgx.Rows) as the call sees it.                              *)

Seqs(S, n) == UNION {[1..m -> S] : m \in 0..n}
Distinct(s) == \A i, j \in 1..Len(s) : i # j => s[i] # s[j]
ColumnLists == {s \in Seqs(ColNames, MaxCols) : Distinct(s)}

\* n rows; row failRow (0: none) fails to decode at column failCol; err is what
\* Err() reports once Next has returned false.
Cursors ==
    {[n |-> n, cols |-> cs, failRow |-> fr, failCol |-> fc, err |-> e, pos |-> 0] :
        n \in 0..MaxRows, cs \in ColumnLists, fr \in 0..MaxRows, fc \in 1..(MaxCols + 1),
        e \in {Nil, ErrIter}}

ValidCursor(c) ==
    /\ c.failRow <= c.n
    /\ IF c.failRow = 0 THEN c.failCol = 1
       ELSE c.failCol <= (IF Len(c.cols) = 0 THEN 1 ELSE Len(c.cols))

ValidCursors == {c \in Cursors : ValidCursor(c)}

Log(op) == calls' = Append(calls, op)
Log2(a, b) == calls' = calls \o <<a, b>>

Count(op) == Cardinality({i \in 1..Len(calls) : calls[i] = op})

----------------------------------------------------------------------------
\* A cursor no call has been given yet, or that a failed query did not produce.
NoRows == [n |-> 0, cols |-> <<>>, failRow |-> 0, failCol |-> 1, err |-> Nil, pos |-> 0]

\* How a call is made: name is "direct" or the wrapper's; err and rows are what
\* queryer.Query returned to the wrapper.
Via(name, err, rows) == [name |-> name, err |-> err, rows |-> rows]

Init ==
    /\ pc = "idle"
    /\ fn = "-"
    /\ dest = Dest("invalid", FALSE, "-", "-", "-")
    /\ dst = <<>>
    /\ dst0 = <<>>
    /\ heap = <<>>
    /\ r = NoRows
    /\ calls = <<>>
    /\ ret = Running
    /\ columns = <<>>
    /\ resultSlice = <<>>
    /\ destVal = 0
    /\ values = <<>>
    /\ via = Via("-", Nil, NoRows)

\* A caller invokes one of the scan functions on a cursor and a destination.
Call(f, d, stale, c) ==
    /\ pc = "idle"
    /\ pc' = "check"
    /\ fn' = f
    /\ dest' = d
    /\ dst' = InitialContents(d, stale)
    /\ dst0' = InitialContents(d, stale)
    /\ heap' = InitialHeap(d, stale)
    /\ r' = c
    /\ via' = Via("direct", Nil, c)
    /\ UNCHANGED <<calls, ret, columns, resultSlice, destVal, values>>

\* A caller invokes Get, Select or SelectFlat; q is what queryer.Query will return.
WrapperCall(w, d, stale, q) ==
    /\ pc = "idle"
    /\ pc' = "query"
    /\ fn' = w
    /\ dest' = d
    /\ dst' = InitialContents(d, stale)
    /\ dst0' = InitialContents(d, stale)
    /\ heap' = InitialHeap(d, stale)
    /\ via' = Via(w, q.err, q.rows)
    /\ UNCHANGED <<r, calls, ret, columns, resultSlice, destVal, values>>

\* Faulty variant: Select pasted from Get without changing the scan function.
ScanOfPasted(w) ==
    CASE w = "Get"    -> "ScanStruct"
      [] w = "Select" -> "ScanStruct"
      [] OTHER        -> "ScanFlat"

\* The scan function a wrapper returns the result of.
ScanOf(w) ==
    CASE w = "Get"    -> "ScanStruct"
      [] w = "Select" -> "ScanStructs"
      [] OTHER        -> "ScanFlat"

\* rows, err := queryer.Query(ctx, query, args...); if err != nil { return err };
\* return Scan...(rows, dest)
Query ==
    /\ pc = "query"
    /\ IF via.err # Nil
       THEN ret' = via.err /\ pc' = "done" /\ fn' = fn /\ r' = r
       ELSE ret' = ret /\ pc' = "check" /\ fn' = ScanOf(fn) /\ r' = via.rows
    /\ UNCHANGED <<dest, dst, dst0, heap, calls, columns, resultSlice, destVal, values, via>>

\* return x: the deferred r.Close() runs next.
Return(x) == ret' = x /\ pc' = "defer"

\* Faulty variant: an explicit r.Close() on the return path besides the deferred one.
DeferCloseTwice ==
    /\ pc = "defer"
    /\ Log2("Close", "Close")
    /\ pc' = "done"
    /\ UNCHANGED <<fn, dest, dst, dst0, heap, r, ret, columns, resultSlice, destVal, values, via>>

\* defer r.Close()
DeferClose ==
    /\ pc = "defer"
    /\ Log("Close")
    /\ pc' = "done"
    /\ UNCHANGED <<fn, dest, dst, dst0, heap, r, ret, columns, resultSlice, destVal, values, via>>

----------------------------------------------------------------------------
(* The mapper and the helpers of structscan.go.                            *)

Min(S) == CHOOSE x \in S : \A y \in S : x <= y
Max(S) == CHOOSE x \in S : \A y \in S : x >= y

\* DefaultMapper.TraversalsByName(t, names): for every name the index path of the
\* matching field (indices as Go counts them, from 0), or the empty path.
TraversalsByName(T, names) ==
    [i \in 1..Len(names) |->
        IF \E j \in 1..Len(Fields(T)) : Fields(T)[j] = names[i]
        THEN <<(CHOOSE j \in 1..Len(Fields(T)) : Fields(T)[j] = names[i]) - 1>>
        ELSE <<>>]

\* Faulty variant: reports the last empty traversal instead of the first.
missingFieldsLast(traversals) ==
    LET empty == {i \in 1..Len(traversals) : Len(traversals[i]) = 0}
    IN  IF empty # {} THEN [field |-> Max(empty) - 1, err |-> TRUE]
        ELSE [field |-> 0, err |-> FALSE]

\* missingFields: the index (from 0) of the first empty traversal, and whether
\* there is one.
missingFields(traversals) ==
    LET empty == {i \in 1..Len(traversals) : Len(traversals[i]) = 0}
    IN  IF empty # {} THEN [field |-> Min(empty) - 1, err |-> TRUE]
        ELSE [field |-> 0, err |-> FALSE]

\* v.Type() as %s prints it: rowMetadata always gets a pointer to the record.
TypeString(T) == "*" \o T

\* rowMetadata(r, v), v a pointer to a record of type T.
rowMetadata(cols, T) ==
    LET fields == TraversalsByName(T, cols)
        m == missingFields(fields)
    IN  IF m.err
        THEN [columns |-> cols, err |-> ErrMissing(cols[m.field + 1], TypeString(T))]
        ELSE [columns |-> cols, err |-> Nil]

\* A scan target: the address of a record field (f.Addr().Interface()), the
\* pointer a field of pointer kind holds (f.Interface()), a discard location
\* (new(interface{})), or ScanFlat's new element (valRow.Interface()).
FieldTarget(f) == [loc |-> "field", field |-> f]
PointeeTarget(f) == [loc |-> "pointee", field |-> f]
DiscardTarget == [loc |-> "discard", field |-> ""]
ElemTarget == [loc |-> "elem", field |-> ""]

\* The field a traversal leads to.
FieldAt(T, traversal) == Fields(T)[traversal[1] + 1]

\* Faulty variant: the targets are written into values from its end (values[len-1-i]).
fieldsByTraversalReversed(T, traversals) ==
    IF T = "-" THEN [err |-> ErrNotStruct, values |-> <<>>]
    ELSE [err |-> Nil,
          values |-> [i \in 1..Len(traversals) |->
                        LET t == traversals[Len(traversals) + 1 - i] IN
                        IF Len(t) = 0 THEN DiscardTarget
                        ELSE IF FieldAt(T, t) \in PtrFields(T)
                        THEN PointeeTarget(FieldAt(T, t))
                        ELSE FieldTarget(FieldAt(T, t))]]

\* fieldsByTraversal(v, traversals, values): its error and the targets it has
\* written into values; T is the type of reflect.Indirect(v), "-" when no struct.
fieldsByTraversal(T, traversals) ==
    IF T = "-" THEN [err |-> ErrNotStruct, values |-> <<>>]
    ELSE [err |-> Nil,
          values |-> [i \in 1..Len(traversals) |->
                        IF Len(traversals[i]) = 0 THEN DiscardTarget
                        ELSE IF FieldAt(T, traversals[i]) \in PtrFields(T)
                        THEN PointeeTarget(FieldAt(T, traversals[i]))
                        ELSE FieldTarget(FieldAt(T, traversals[i]))]]

\* The record after fieldsByTraversal: reflectx.FieldByIndexes gives every nil
\* pointer it walks through, the leaf field included, a new zero value to point to.
Allocated(rec, T, traversals) ==
    IF T = "-" THEN rec
    ELSE [f \in DOMAIN rec |->
            IF /\ rec[f] = NilValue
               /\ \E i \in 1..Len(traversals) :
                     Len(traversals[i]) # 0 /\ FieldAt(T, traversals[i]) = f
            THEN ZeroValue ELSE rec[f]]

\* The record type the mapper works on: the destination's type with its pointers
\* removed; "-" when that is not a struct.  reflectx's TraversalsByName panics on
\* such a type, which the callers of rowMetadata below turn into Panic.
StructType(f, d) ==
    IF f = "ScanStruct" THEN (IF d.pointee = "struct" THEN d.typ ELSE "-")
    ELSE (IF d.elem \in {"struct", "ptr"} THEN d.typ ELSE "-")

\* r.Scan(values...) on the current row: whether it succeeds.  The driver wants
\* one target per column, and row failRow does not decode.
ScanOK(c, ntargets) == ntargets = Len(c.cols) /\ c.failRow # c.pos

\* How many targets r.Scan writes before it returns.
Written(c, ntargets) ==
    IF ntargets # Len(c.cols) THEN 0
    ELSE IF c.failRow = c.pos THEN c.failCol - 1
    ELSE ntargets

\* The record rec after r.Scan(targets...) on the current row of c.
Decoded(rec, targets, c) ==
    LET w == Written(c, Len(targets))
        hits(f) == {k \in 1..w : targets[k] \in {FieldTarget(f), PointeeTarget(f)}}
    IN  [f \in DOMAIN rec |->
            IF hits(f) # {} THEN Cell(c.pos, c.cols[Max(hits(f))]) ELSE rec[f]]

----------------------------------------------------------------------------
(* ScanStruct                                                              *)

\* v.Kind() != reflect.Ptr, v.IsNil()
StructCheck ==
    /\ pc = "check" /\ fn = "ScanStruct"
    /\ IF dest.kind # "ptr" THEN Return(ErrNotPointer)
       ELSE IF dest.isNil THEN Return(ErrNilPointer)
       ELSE pc' = "next" /\ ret' = ret
    /\ UNCHANGED <<fn, dest, dst, dst0, heap, r, calls, columns, resultSlice, destVal, values, via>>

\* Faulty variant: if !r.Next() { return r.Err() }, which is nil for an empty result.
StructNextErrOnly ==
    /\ pc = "next" /\ fn = "ScanStruct"
    /\ IF r.pos < r.n
       THEN /\ r' = [r EXCEPT !.pos = @ + 1]
            /\ Log("Next")
            /\ pc' = "meta" /\ ret' = ret
       ELSE /\ r' = r
            /\ Log2("Next", "Err")
            /\ Return(r.err)
    /\ UNCHANGED <<fn, dest, dst, dst0, heap, columns, resultSlice, destVal, values, via>>

\* Faulty variant: for r.Next() {} before scanning, which leaves the cursor on its last row.
StructNextLast ==
    /\ pc = "next" /\ fn = "ScanStruct"
    /\ IF r.pos < r.n
       THEN /\ r' = [r EXCEPT !.pos = r.n]
            /\ calls' = calls \o [i \in 1..r.n |-> "Next"]
            /\ pc' = "meta" /\ ret' = ret
       ELSE /\ r' = r
            /\ Log2("Next", "Err")
            /\ Return(IF r.err # Nil THEN r.err ELSE ErrNoRows)
    /\ UNCHANGED <<fn, dest, dst, dst0, heap, columns, resultSlice, destVal, values, via>>

\* Faulty variant: if !r.Next() { return pgx.ErrNoRows }, r.Err() being ignored.
StructNextNoRowsOnly ==
    /\ pc = "next" /\ fn = "ScanStruct"
    /\ IF r.pos < r.n
       THEN /\ r' = [r EXCEPT !.pos = @ + 1]
            /\ Log("Next")
            /\ pc' = "meta" /\ ret' = ret
       ELSE /\ r' = r
            /\ Log("Next")
            /\ Return(ErrNoRows)
    /\ UNCHANGED <<fn, dest, dst, dst0, heap, columns, resultSlice, destVal, values, via>>

\* if !r.Next() { if err := r.Err(); err != nil { return err }; return pgx.ErrNoRows }
StructNext ==
    /\ pc = "next" /\ fn = "ScanStruct"
    /\ IF r.pos < r.n
       THEN /\ r' = [r EXCEPT !.pos = @ + 1]
            /\ Log("Next")
            /\ pc' = "meta" /\ ret' = ret
       ELSE /\ r' = r
            /\ Log2("Next", "Err")
            /\ Return(IF r.err # Nil THEN r.err ELSE ErrNoRows)
    /\ UNCHANGED <<fn, dest, dst, dst0, heap, columns, resultSlice, destVal, values, via>>

\* columns, err := rowMetadata(r, v)
StructMeta ==
    /\ pc = "meta" /\ fn = "ScanStruct"
    /\ Log2("FieldDescriptions", "TraversalsByName")
    /\ LET T == StructType(fn, dest) IN
       IF T = "-" THEN Return(Panic) /\ columns' = columns
       ELSE LET m == rowMetadata(r.cols, T) IN
            IF m.err # Nil THEN Return(m.err) /\ columns' = columns
            ELSE columns' = m.columns /\ pc' = "scan" /\ ret' = ret
    /\ UNCHANGED <<fn, dest, dst, dst0, heap, r, resultSlice, destVal, values, via>>

\* fields := TraversalsByName; fieldsByTraversal(v, fields, values); return r.Scan(values...)
StructScan ==
    /\ pc = "scan" /\ fn = "ScanStruct"
    /\ calls' = calls \o <<"TraversalsByName", "fieldsByTraversal", "Scan">>
    /\ LET T == StructType(fn, dest)
           fields == TraversalsByName(T, columns)
           fbt == fieldsByTraversal(T, fields)
       IN  IF fbt.err # Nil THEN dst' = dst /\ values' = values /\ Return(fbt.err)
           ELSE /\ values' = fbt.values
                /\ dst' = Decoded(Allocated(dst, T, fields), fbt.values, r)
                /\ Return(IF ScanOK(r, Len(fbt.values)) THEN Nil ELSE ErrDecode)
    /\ UNCHANGED <<fn, dest, dst0, heap, r, columns, resultSlice, destVal, via>>

----------------------------------------------------------------------------
(* ScanFlat                                                                *)

\* valDest.Kind() != reflect.Ptr || valDest.Elem().Kind() != reflect.Slice
\* (Elem() of a nil pointer is the zero Value, of Kind Invalid)
FlatCheck ==
    /\ pc = "check" /\ fn = "ScanFlat"
    /\ IF dest.kind # "ptr" \/ dest.isNil \/ dest.pointee # "slice"
       THEN Return(ErrFlatShape) /\ resultSlice' = resultSlice
       ELSE resultSlice' = <<>> /\ pc' = "loop" /\ ret' = ret
    /\ UNCHANGED <<fn, dest, dst, dst0, heap, r, calls, columns, destVal, values, via>>

\* for r.Next() { ... }
FlatNext ==
    /\ pc = "loop" /\ fn = "ScanFlat"
    /\ Log("Next")
    /\ IF r.pos < r.n
       THEN r' = [r EXCEPT !.pos = @ + 1] /\ pc' = "scan"
       ELSE r' = r /\ pc' = "commit"
    /\ UNCHANGED <<fn, dest, dst, dst0, heap, ret, columns, resultSlice, destVal, values, via>>

\* valRow := reflect.New(typElem); r.Scan(valRow.Interface()); append
FlatScan ==
    /\ pc = "scan" /\ fn = "ScanFlat"
    /\ Log("Scan")
    /\ values' = <<ElemTarget>>
    /\ IF ScanOK(r, 1)
       THEN /\ resultSlice' = Append(resultSlice, Scalar(Cell(r.pos, r.cols[1])))
            /\ pc' = "loop" /\ ret' = ret
       ELSE /\ resultSlice' = resultSlice
            /\ Return(Wrap(ErrDecode, "failed to parse a row"))
    /\ UNCHANGED <<fn, dest, dst, dst0, heap, r, columns, destVal, via>>

\* Faulty variant: the rows are appended to what the destination holds.
FlatCommitAppend ==
    /\ pc = "commit" /\ fn = "ScanFlat"
    /\ dst' = dst \o resultSlice
    /\ Log("Err")
    /\ Return(r.err)
    /\ UNCHANGED <<fn, dest, dst0, heap, r, columns, resultSlice, destVal, values, via>>

\* valDest.Elem().Set(valSlice); return r.Err()
FlatCommit ==
    /\ pc = "commit" /\ fn = "ScanFlat"
    /\ dst' = resultSlice
    /\ Log("Err")
    /\ Return(r.err)
    /\ UNCHANGED <<fn, dest, dst0, heap, r, columns, resultSlice, destVal, values, via>>

----------------------------------------------------------------------------
(* ScanStructs                                                             *)

\* destType := reflect.TypeOf(dest): nil for an untyped nil dest, and Kind() on
\* it panics.
StructsCheck ==
    /\ pc = "check" /\ fn = "ScanStructs"
    /\ IF dest.kind = "invalid" THEN Return(Panic) /\ resultSlice' = resultSlice
       ELSE IF dest.kind # "ptr" \/ dest.pointee # "slice"
       THEN Return(ErrStructsShape) /\ resultSlice' = resultSlice
       ELSE resultSlice' = <<>> /\ pc' = "loop" /\ ret' = ret
    /\ UNCHANGED <<fn, dest, dst, dst0, heap, r, calls, columns, destVal, values, via>>

\* for r.Next() { ... }
StructsNext ==
    /\ pc = "loop" /\ fn = "ScanStructs"
    /\ Log("Next")
    /\ IF r.pos < r.n
       THEN r' = [r EXCEPT !.pos = @ + 1] /\ pc' = "row"
       ELSE r' = r /\ pc' = "commit"
    /\ UNCHANGED <<fn, dest, dst, dst0, heap, ret, columns, resultSlice, destVal, values, via>>

\* Faulty variant: one scratch instance, allocated for the first row and used for all.
NewReused(h) == IF Len(h) = 0 THEN 1 ELSE Len(h)

\* reflect.New(*structTypeToCreate): a new instance, at a new address.
New(h) == Len(h) + 1

\* destVal := reflect.New(...); if len(columns) == 0 { columns, err = rowMetadata(r, destVal) }
StructsRow ==
    /\ pc = "row" /\ fn = "ScanStructs"
    /\ LET T == StructType(fn, dest) IN
       /\ destVal' = New(heap)
       /\ heap' = [a \in DOMAIN heap \cup {New(heap)} |->
                     IF a = New(heap)
                     THEN (IF T = "-" THEN Scalar(ZeroValue) ELSE ZeroRecord(T))
                     ELSE heap[a]]
       /\ IF Len(columns) # 0
          THEN calls' = calls /\ columns' = columns /\ pc' = "scan" /\ ret' = ret
          ELSE /\ Log2("FieldDescriptions", "TraversalsByName")
               /\ IF T = "-" THEN Return(Panic) /\ columns' = columns
                  ELSE LET m == rowMetadata(r.cols, T) IN
                       IF m.err # Nil THEN Return(m.err) /\ columns' = m.columns
                       ELSE columns' = m.columns /\ pc' = "scan" /\ ret' = ret
    /\ UNCHANGED <<fn, dest, dst, dst0, r, resultSlice, values, via>>

\* destVal.Elem().Kind() == elementType.Kind(): the element is the record itself
ByValue(d) == d.elem = "struct"

\* Faulty variant: the new element is put in front of the accumulator.
PrependElem(s, e) == <<e>> \o s

\* resultSlice = reflect.Append(resultSlice, ...)
AppendElem(s, e) == Append(s, e)

\* Faulty variant: a row that fails to decode is skipped (continue) instead of returned.
StructsScanContinue ==
    /\ pc = "scan" /\ fn = "ScanStructs"
    /\ calls' = calls \o <<"TraversalsByName", "fieldsByTraversal", "Scan">>
    /\ LET T == StructType(fn, dest)
           fields == TraversalsByName(T, columns)
           fbt == fieldsByTraversal(T, fields)
           rec == Decoded(Allocated(heap[destVal], T, fields), fbt.values, r)
       IN  IF fbt.err # Nil
           THEN /\ heap' = heap /\ resultSlice' = resultSlice /\ values' = values
                /\ Return(fbt.err)
           ELSE /\ values' = fbt.values
                /\ heap' = [heap EXCEPT ![destVal] = rec]
                /\ resultSlice' =
                     IF ScanOK(r, Len(fbt.values))
                     THEN Append(resultSlice, IF ByValue(dest) THEN rec ELSE PtrTo(destVal))
                     ELSE resultSlice
                /\ pc' = "loop" /\ ret' = ret
    /\ UNCHANGED <<fn, dest, dst, dst0, r, columns, destVal, via>>

\* fields := TraversalsByName; fieldsByTraversal; r.Scan(values...); append
StructsScan ==
    /\ pc = "scan" /\ fn = "ScanStructs"
    /\ calls' = calls \o <<"TraversalsByName", "fieldsByTraversal", "Scan">>
    /\ LET T == StructType(fn, dest)
           fields == TraversalsByName(T, columns)
           fbt == fieldsByTraversal(T, fields)
           rec == Decoded(Allocated(heap[destVal], T, fields), fbt.values, r)
       IN  IF fbt.err # Nil
           THEN /\ heap' = heap /\ resultSlice' = resultSlice /\ values' = values
                /\ Return(fbt.err)
           ELSE /\ values' = fbt.values
                /\ heap' = [heap EXCEPT ![destVal] = rec]
                /\ IF ScanOK(r, Len(fbt.values))
                   THEN /\ resultSlice' =
                             AppendElem(resultSlice,
                                        IF ByValue(dest) THEN rec ELSE PtrTo(destVal))
                        /\ pc' = "loop" /\ ret' = ret
                   ELSE resultSlice' = resultSlice /\ Return(ErrDecode)
    /\ UNCHANGED <<fn, dest, dst, dst0, r, columns, destVal, via>>

\* Faulty variant: reflect.AppendSlice onto the destination instead of Set.
StructsCommitAppend ==
    /\ pc = "commit" /\ fn = "ScanStructs"
    /\ IF dest.isNil
       THEN dst' = dst /\ calls' = calls /\ Return(Panic)
       ELSE dst' = dst \o resultSlice /\ Log("Err") /\ Return(r.err)
    /\ UNCHANGED <<fn, dest, dst0, heap, r, columns, resultSlice, destVal, values, via>>

\* reflect.ValueOf(dest).Elem().Set(resultSlice); return r.Err()
\* (Elem() of a nil pointer is the zero Value, and Set on it panics)
StructsCommit ==
    /\ pc = "commit" /\ fn = "ScanStructs"
    /\ IF dest.isNil
       THEN dst' = dst /\ calls' = calls /\ Return(Panic)
       ELSE dst' = resultSlice /\ Log("Err") /\ Return(r.err)
    /\ UNCHANGED <<fn, dest, dst0, heap, r, columns, resultSlice, destVal, values, via>>

Functions == {"ScanStruct", "ScanStructs", "ScanFlat"}

Wrappers == {"Get", "Select", "SelectFlat"}

\* What queryer.Query can return: an error, or a cursor.
QueryResults ==
    {[err |-> ErrQuery, rows |-> NoRows]}
    \cup {[err |-> Nil, rows |-> c] : c \in ValidCursors}

Start ==
    /\ pc = "idle"
    /\ \E f \in Functions, d \in Dests, c \in ValidCursors :
          \E stale \in {s \in BOOLEAN : s => HasContents(d)} : Call(f, d, stale, c)

StartWrapper ==
    /\ pc = "idle"
    /\ \E w \in Wrappers, d \in Dests, q \in QueryResults :
          \E stale \in {s \in BOOLEAN : s => HasContents(d)} : WrapperCall(w, d, stale, q)

Next ==
    \/ Start
    \/ StartWrapper
    \/ Query
    \/ StructCheck \/ StructNext \/ StructMeta \/ StructScan
    \/ FlatCheck \/ FlatNext \/ FlatScan \/ FlatCommit
    \/ StructsCheck \/ StructsNext \/ StructsRow \/ StructsScan \/ StructsCommit
    \/ DeferClose

Spec == Init /\ [][Next]_vars

----------------------------------------------------------------------------
(* Properties.                                                             *)

Returned == pc = "done"

\* Columns of the cursor that match no field of record type T, by position.
Unmatched(T, cols) == {k \in 1..Len(cols) : cols[k] \notin FieldSet(T)}

\* The record base after the i-th row of a result with columns cols was decoded
\* into it: every field a column names holds that row's cell.
Expected(base, cols, i) ==
    [f \in DOMAIN base |->
        IF \E k \in 1..Len(cols) : cols[k] = f THEN Cell(i, f) ELSE base[f]]

\* The destination passes the shape checks of the mode and the mapper accepts
\* its record type.
RecordDest(f, d) ==
    /\ d.kind = "ptr"
    /\ \/ f = "ScanStruct" /\ ~d.isNil /\ d.pointee = "struct"
       \/ f = "ScanStructs" /\ d.pointee = "slice" /\ d.elem \in {"struct", "ptr"}

\* C1: in each of the three modes and on every exit path, Close has been called
\* exactly once when the call returns, it is the last cursor operation of the
\* call (no Next or Scan follows it), and it is not called before the call ends.
C1_ClosedExactlyOnce ==
    fn \in {"ScanStruct", "ScanStructs", "ScanFlat"}
    => /\ ret # Running => pc \in {"defer", "done"}
       /\ pc # "done" => Count("Close") = 0
       /\ pc = "done" => /\ Count("Close") = 1
                         /\ calls[Len(calls)] = "Close"
                         /\ ret # Running

\* C1 witness: a multi-record scan that decoded rows, then met a cursor error.
C1_Witness ==
    /\ Returned /\ fn = "ScanStructs" /\ ret = ErrIter
    /\ Count("Scan") = 2 /\ Count("Close") = 1

\* C2: ScanStruct with a non-nil pointer destination on a cursor with zero rows
\* and no iteration error never calls Scan, leaves the destination unchanged,
\* returns exactly pgx.ErrNoRows and has closed the cursor once.
C2_NoRows ==
    (fn = "ScanStruct" /\ dest.kind = "ptr" /\ ~dest.isNil /\ r.n = 0 /\ r.err = Nil)
    => /\ Count("Scan") = 0
       /\ dst = dst0
       /\ Returned => ret = ErrNoRows /\ Count("Close") = 1

\* C2 witness: such a call has returned, the destination holding earlier values.
C2_Witness ==
    /\ Returned /\ fn = "ScanStruct" /\ dest.pointee = "struct" /\ ~dest.isNil
    /\ r.n = 0 /\ r.err = Nil /\ ret = ErrNoRows /\ dst = OldRecord(dest.typ)

\* C3 as claimed: in ScanStruct and ScanStructs, whenever the reported columns
\* include a name without a matching field, Scan is never called, the destination
\* is unmodified and the error names the first unmatched column and the type.
C3_Original ==
    (fn \in {"ScanStruct", "ScanStructs"} /\ RecordDest(fn, dest)
        /\ Unmatched(dest.typ, r.cols) # {})
    => /\ Count("Scan") = 0
       /\ dst = dst0
       /\ Returned =>
            ret = ErrMissing(r.cols[Min(Unmatched(dest.typ, r.cols))], TypeString(dest.typ))

\* C3 amended: the same, when the cursor yields at least one row (the columns
\* are looked at only once the first Next has returned true).
C3_MissingColumn ==
    (fn \in {"ScanStruct", "ScanStructs"} /\ RecordDest(fn, dest)
        /\ Unmatched(dest.typ, r.cols) # {} /\ r.n >= 1)
    => /\ Count("Scan") = 0
       /\ dst = dst0
       /\ Returned =>
            ret = ErrMissing(r.cols[Min(Unmatched(dest.typ, r.cols))], TypeString(dest.typ))

\* C3 witness: two unmatched columns, the error naming the first of them.
C3_Witness ==
    /\ Returned /\ fn = "ScanStructs" /\ RecordDest(fn, dest) /\ ~dest.isNil
    /\ r.cols = <<"some_data", "extra">> /\ dest.typ = "testMissingField"
    /\ r.n >= 1 /\ dst0 # <<>>
    /\ ret = ErrMissing("some_data", "*testMissingField")

\* The record a slice element stands for: itself, or the one its pointer holds.
ElemRecord(e) == IF ByValue(dest) THEN e ELSE heap[e.addr]

\* C4: after a successful ScanStructs over a cursor of N rows the destination
\* has exactly N elements, element i holding the values of the i-th row.
C4_RowOrder ==
    (fn = "ScanStructs" /\ Returned /\ ret = Nil)
    => /\ Len(dst) = r.n
       /\ \A i \in 1..r.n :
            ElemRecord(dst[i]) = Expected(ZeroRecord(dest.typ), r.cols, i)

\* C4 witness: three rows of two columns scanned into a slice of records that
\* held an element before.
C4_Witness ==
    /\ Returned /\ fn = "ScanStructs" /\ ret = Nil /\ ByValue(dest)
    /\ r.n = 3 /\ Len(r.cols) = 2 /\ Len(dst0) = 1 /\ Len(dst) = 3

\* C5: in ScanStructs, when a row fails to decode, the call returns that error
\* at once: the failing Scan is the last one, no Next follows it, and the
\* destination is as it was before the call.
C5_DecodeErrorAborts ==
    (fn = "ScanStructs" /\ RecordDest(fn, dest) /\ Unmatched(dest.typ, r.cols) = {}
        /\ r.failRow >= 1)
    => /\ dst = dst0
       /\ Count("Next") <= r.failRow
       /\ Count("Scan") <= r.failRow
       /\ Returned => /\ ret = ErrDecode
                      /\ Count("Next") = r.failRow
                      /\ Count("Scan") = r.failRow

\* C5 witness: the second of three rows fails after the first was decoded.
C5_Witness ==
    /\ Returned /\ fn = "ScanStructs" /\ ret = ErrDecode /\ ~dest.isNil
    /\ r.n = 3 /\ r.failRow = 2 /\ Len(resultSlice) = 1 /\ dst0 # <<>> /\ dst = dst0

\* C6: whenever ScanStructs or ScanFlat returns a non-nil error, the destination
\* is as it was before the call.
C6_ErrorLeavesDestination ==
    (fn \in {"ScanStructs", "ScanFlat"} /\ Returned /\ IsError(ret)) => dst = dst0

\* C7: in ScanStructs into a slice of pointers, the elements accumulated are
\* pairwise distinct instances, none of them one the destination held before the
\* call, each holding the values of its own row whatever rows were decoded after
\* it; on success they are the destination's elements.
C7_DistinctInstances ==
    (fn = "ScanStructs" /\ RecordDest(fn, dest) /\ dest.elem = "ptr")
    => /\ \A i, j \in 1..Len(resultSlice) :
            i # j => resultSlice[i].addr # resultSlice[j].addr
       /\ \A i \in 1..Len(resultSlice) :
            /\ \A j \in 1..Len(dst0) : resultSlice[i].addr # dst0[j].addr
            /\ heap[resultSlice[i].addr] = Expected(ZeroRecord(dest.typ), r.cols, i)
       /\ (Returned /\ ret = Nil) => dst = resultSlice

\* C7 witness: three rows scanned into a slice that held a pointer before.
C7_Witness ==
    /\ Returned /\ fn = "ScanStructs" /\ ret = Nil /\ dest.elem = "ptr"
    /\ r.n = 3 /\ Len(r.cols) = 2 /\ Len(dst0) = 1 /\ Len(dst) = 3

\* C8: ScanFlat never asks for column metadata and never resolves fields; after a
\* successful ScanFlat over a single-column cursor of N rows the destination has
\* exactly N elements, element i being the value of the i-th row.
C8_FlatOrder ==
    fn = "ScanFlat"
    => /\ Count("FieldDescriptions") = 0
       /\ Count("TraversalsByName") = 0
       /\ Count("fieldsByTraversal") = 0
       /\ (Returned /\ ret = Nil /\ Len(r.cols) = 1)
          => /\ Len(dst) = r.n
             /\ \A i \in 1..r.n : dst[i] = Scalar(Cell(i, r.cols[1]))

\* C8 witness: three rows scanned into a slice of scalars that held one before.
C8_Witness ==
    /\ Returned /\ fn = "ScanFlat" /\ ret = Nil /\ dest.elem = "scalar"
    /\ r.n = 3 /\ Len(r.cols) = 1 /\ Len(dst0) = 1 /\ Len(dst) = 3

\* C9: ScanStruct calls Next at most once and Scan at most once whatever the
\* number of rows, and on success the destination holds the first row's values.
C9_FirstRowOnly ==
    fn = "ScanStruct"
    => /\ Count("Next") <= 1
       /\ Count("Scan") <= 1
       /\ r.pos <= 1
       /\ (Returned /\ ret = Nil) => dst = Expected(dst0, r.cols, 1)

\* C9 witness: a result of three rows, the first decoded into the destination.
C9_Witness ==
    /\ Returned /\ fn = "ScanStruct" /\ ret = Nil /\ r.n = 3 /\ Len(r.cols) = 2
    /\ dst0 = OldRecord("testEntity") /\ dst # dst0
    /\ Count("Next") = 1 /\ Count("Scan") = 1

\* The destinations C10 is about: not a pointer (any mode), a nil pointer
\* (ScanStruct), a pointer to something that is no slice (ScanStructs, ScanFlat).
InvalidDest ==
    \/ dest.kind # "ptr"
    \/ fn = "ScanStruct" /\ dest.isNil
    \/ fn \in {"ScanStructs", "ScanFlat"} /\ dest.pointee # "slice"

\* C10: with such a destination the call returns an error without calling Next,
\* FieldDescriptions or Scan, the destination is not written and the cursor is
\* closed.
C10_InvalidDestination ==
    (fn \in Functions /\ InvalidDest)
    => /\ Count("Next") = 0
       /\ Count("FieldDescriptions") = 0
       /\ Count("Scan") = 0
       /\ dst = dst0
       /\ Returned => IsError(ret) /\ Count("Close") = 1

\* C11: ScanFlat given a pointer to a slice of records reports the invalid
\* destination shape at once: no Next, no Scan, the destination unmodified.
C11_FlatRejectsRecords ==
    (fn = "ScanFlat" /\ dest.kind = "ptr" /\ dest.pointee = "slice"
        /\ dest.elem = "struct")
    => /\ Count("Next") = 0
       /\ Count("Scan") = 0
       /\ dst = dst0
       /\ Returned => ret = ErrFlatShape

\* The call has returned out of a Scan that failed on the current row.
ScanFailed ==
    /\ Returned /\ r.pos >= 1 /\ Count("Scan") = r.pos
    /\ ~ScanOK(r, IF fn = "ScanFlat" THEN 1 ELSE Len(r.cols))

\* C12: in each of the three modes a decode error is returned wrapped with
\* "failed to parse a row", the driver's error being its cause, and the scan is
\* aborted.
C12_DecodeErrorWrapped ==
    (fn \in {"ScanStruct", "ScanStructs", "ScanFlat"} /\ ScanFailed)
    => /\ ret = Wrap(ErrDecode, "failed to parse a row")
       /\ Count("Next") = r.pos

\* C14: ScanStructs with a nil pointer to a slice reports an invalid destination
\* without reading a row, and never gets to the commit step.
C14_NilSliceRejected ==
    (fn = "ScanStructs" /\ dest.kind = "ptr" /\ dest.isNil /\ dest.pointee = "slice")
    => /\ Count("Next") = 0
       /\ Count("Scan") = 0
       /\ pc # "commit"
       /\ Returned => IsError(ret)

\* C16: in ScanStructs the access paths are resolved (TraversalsByName) once per
\* call whatever the number of rows, and the targets are built
\* (fieldsByTraversal) once per decoded row.
C16_ResolvedOnce ==
    fn = "ScanStructs"
    => /\ Count("TraversalsByName") <= 1
       /\ Count("fieldsByTraversal") = Count("Scan")

\* C18: in ScanStruct, when the first Next returns false, the call returns the
\* cursor's error when there is one, and pgx.ErrNoRows otherwise; it returns
\* pgx.ErrNoRows in no other case.
C18_CursorErrorFirst ==
    (fn = "ScanStruct" /\ Returned)
    => /\ (dest.kind = "ptr" /\ ~dest.isNil /\ r.n = 0 /\ r.err # Nil) => ret = r.err
       /\ ret = ErrNoRows
            <=> (dest.kind = "ptr" /\ ~dest.isNil /\ r.n = 0 /\ r.err = Nil)
       /\ (ret = ErrNoRows \/ (r.n = 0 /\ ret = ErrIter))
            => calls = <<"Next", "Err", "Close">>

\* C18 witness: an empty result whose cursor reports an error.
C18_Witness ==
    /\ Returned /\ fn = "ScanStruct" /\ dest.pointee = "struct"
    /\ r.n = 0 /\ r.err = ErrIter /\ ret = ErrIter

\* The destination is a non-nil pointer to a slice.
SliceDest == dest.kind = "ptr" /\ ~dest.isNil /\ dest.pointee = "slice"

\* C19: a successful ScanStructs or ScanFlat replaces the destination: it holds
\* the accumulated rows, as many as the cursor yielded, and none of the elements
\* it held before; on a result of zero rows without a cursor error the call
\* returns nil and the destination is the empty sequence.
C19_Replaces ==
    (fn \in {"ScanStructs", "ScanFlat"} /\ Returned)
    => /\ ret = Nil => /\ dst = resultSlice
                       /\ Len(dst) = r.n
                       /\ \A i \in 1..Len(dst), j \in 1..Len(dst0) : dst[i] # dst0[j]
       /\ (SliceDest /\ r.n = 0 /\ r.err = Nil) => ret = Nil /\ dst = <<>>

\* C19 witness: an empty result scanned into a slice that held an element.
C19_Witness ==
    /\ Returned /\ fn = "ScanStructs" /\ SliceDest /\ r.n = 0 /\ r.err = Nil
    /\ Len(dst0) = 1 /\ dst = <<>> /\ ret = Nil

\* C13: a wrapper whose query fails returns that error without running a scan
\* function, without a cursor operation and without writing the destination;
\* otherwise it runs the scan function of its mode (Get: ScanStruct, Select:
\* ScanStructs, SelectFlat: ScanFlat) on the cursor the query returned and on the
\* caller's destination, and its result is that function's.
C13_WrappersDelegate ==
    via.name \in {"Get", "Select", "SelectFlat"}
    => /\ pc = "query" => calls = <<>> /\ dst = dst0 /\ ret = Running
       /\ (via.err # Nil /\ pc # "query")
            => /\ Returned /\ ret = via.err /\ calls = <<>> /\ dst = dst0
               /\ fn = via.name
       /\ (via.err = Nil /\ pc # "query")
            => /\ via.name = "Get" => fn = "ScanStruct"
               /\ via.name = "Select" => fn = "ScanStructs"
               /\ via.name = "SelectFlat" => fn = "ScanFlat"
               /\ [r EXCEPT !.pos = 0] = via.rows

\* C13 witness: Select has returned the two rows of the cursor its query gave.
C13_Witness ==
    /\ Returned /\ via.name = "Select" /\ via.err = Nil /\ via.rows.n = 2
    /\ ret = Nil /\ Len(dst) = 2 /\ Count("Scan") = 2

\* The record the last r.Scan wrote into.
ScannedRecord == IF fn = "ScanStruct" THEN dst ELSE heap[destVal]

\* C15: in ScanStruct and ScanStructs every Scan gets exactly one target per
\* reported column, in column order, target i being for the field matched to
\* column i, so that every column written lands in the field of its own name
\* (looked at while the cursor is still on the row that was scanned).
C15_TargetsAligned ==
    (fn \in {"ScanStruct", "ScanStructs"} /\ Count("Scan") >= 1)
    => /\ Len(values) = Len(r.cols)
       /\ \A i \in 1..Len(values) :
            /\ values[i].loc \in {"field", "pointee"}
            /\ values[i].field = r.cols[i]
       /\ Count("Scan") = r.pos
            => \A i \in 1..Written(r, Len(values)) :
                 ScannedRecord[r.cols[i]] = Cell(r.pos, r.cols[i])

\* C15 witness: the second row of a two-column result has been scanned.
C15_Witness ==
    /\ fn = "ScanStructs" /\ Count("Scan") = 2 /\ r.pos = 2 /\ pc = "loop"
    /\ r.cols = <<"some_data", "id">> /\ Len(values) = 2

\* C17: the target for a field of pointer kind is the field's own location (so
\* that decoding can set the field to nil), and the target for any other field
\* is the field's address: every target is the location of its field.
C17_TargetIsFieldLocation ==
    (fn \in {"ScanStruct", "ScanStructs"} /\ Count("Scan") >= 1)
    => \A i \in 1..Len(values) : values[i] = FieldTarget(r.cols[i])
====
